---- MODULE Spec2Model ----
(***************************************************************************)
(* Tobit (censored regression) estimator of src/tobit.py:                  *)
(* split_left_right_censored, tobit_neg_log_likelihood,                    *)
(* tobit_neg_log_likelihood_der and the TobitModel class                   *)
(* (fit / predict / score).                                                *)
(*                                                                         *)
(* Numbers.  Data and parameter vectors are drawn from small integer       *)
(* grids.  A computed float is an extended rational <<n, d>>: d > 0 is the *)
(* reduced fraction n/d, <<1,0>> is +inf, <<-1,0>> is -inf and <<0,0>> is   *)
(* NaN, with the IEEE-754 rules numpy follows (x/0 = +-inf, 0/0 = NaN,     *)
(* 0*inf = NaN, inf-inf = NaN; numpy warns and does not raise).  Sums are  *)
(* taken over the reals: rounding and the order of a floating-point sum    *)
(* are not modelled.  The transcendental functions (log Phi, the inverse   *)
(* Mills ratio, the normal CDF of the p-value) are kept as terms over      *)
(* their exact arguments.                                                  *)
(***************************************************************************)
EXTENDS Integers, Sequences, FiniteSets, Bags, TLC

VARIABLES
    fit_intercept,  \* TobitModel.fit_intercept
    self,           \* the other attributes of the TobitModel instance
    x, y, cens,     \* the dataset handed to fit: feature rows, responses, codes
    pc,             \* position of the caller / of fit
    b0,             \* fit's local b0 (warm-start coefficients)
    xs, ys,         \* the partition fit hands to the two closures
    params,         \* the optimizer's current iterate
    fun, jac,       \* objective and gradient at the current iterate
    nit,            \* optimizer iterations so far
    result,         \* the OptimizeResult minimize returned
    summary,        \* rows of summary_df as printed
    out,            \* the last predict / score call and its return value
    ref             \* objective value kept by the sign-flip experiment

vars == <<fit_intercept, self, x, y, cens, pc, b0, xs, ys, params, fun, jac,
          nit, result, summary, out, ref>>

----------------------------------------------------------------------------
(* Bounds of the model *)

MaxRows == 2        \* observations in a dataset: 1..MaxRows
MaxCoef == 1        \* coefficient entries of an iterate: 0..MaxCoef (fit),
                    \* -MaxCoef..MaxCoef (direct calls of the objective)
MaxScale == 1       \* scale entry of an iterate: -1..MaxScale
MaxIter == 1        \* optimizer iterations after the start point

NumCols == {1}                       \* feature columns of a dataset
XVals == {0, 1}                      \* feature values
YVals == {0, 1}                      \* responses
CoefVals == 0..MaxCoef
ScaleVals == (0 - 1)..MaxScale
HessVals == {0 - 1, 0, 4}            \* diagonal entries of result.hess_inv

None == "None"

LEFT == -1
NONE == 0
RIGHT == 1

----------------------------------------------------------------------------
(* Extended rationals *)

Abs(n) == IF n < 0 THEN 0 - n ELSE n

Sgn(n) == IF n < 0 THEN 0 - 1 ELSE IF n > 0 THEN 1 ELSE 0

RECURSIVE GCD(_, _)
GCD(a, b) == IF b = 0 THEN a ELSE GCD(b, a % b)

Norm(n, d) ==
    IF d = 0 THEN <<Sgn(n), 0>>
    ELSE LET g == GCD(Abs(n), Abs(d))
             s == IF d < 0 THEN 0 - 1 ELSE 1
         IN  <<(s * n) \div g, (s * d) \div g>>

Rat(n) == <<n, 1>>
NaN == <<0, 0>>
PosInf == <<1, 0>>
NegInf == <<0 - 1, 0>>

IsNaN(a) == a = NaN
IsFinite(a) == a[2] # 0

RNeg(a) == <<0 - a[1], a[2]>>

RAdd(a, b) ==
    IF a[2] = 0 /\ b[2] = 0
    THEN (IF a = b THEN a ELSE NaN)
    ELSE Norm(a[1] * b[2] + b[1] * a[2], a[2] * b[2])

RSub(a, b) == RAdd(a, RNeg(b))

RMul(a, b) == Norm(a[1] * b[1], a[2] * b[2])

RDiv(a, b) == Norm(a[1] * b[2], a[2] * b[1])

RAbs(a) == <<Abs(a[1]), a[2]>>

RECURSIVE RSum(_)
RSum(s) == IF s = <<>> THEN Rat(0) ELSE RAdd(Head(s), RSum(Tail(s)))

RECURSIVE Dot(_, _)
Dot(u, v) == IF u = <<>> THEN 0 ELSE Head(u) * Head(v) + Dot(Tail(u), Tail(v))

----------------------------------------------------------------------------
(* split_left_right_censored *)

\* x[split].values / y[split].values: the rows whose mask entry is True, in order
RECURSIVE Select(_, _)
Select(rows, mask) ==
    IF rows = <<>> THEN <<>>
    ELSE (IF Head(mask) THEN <<Head(rows)>> ELSE <<>>) \o Select(Tail(rows), Tail(mask))

\* counts = cens.value_counts(): the codes that occur
Counts(c) == {c[i] : i \in DOMAIN c}

\* A group of the partition: none = TRUE is Python's None (v is then unused)
Absent == [none |-> TRUE, v |-> <<>>]
Present(rows) == [none |-> FALSE, v |-> rows]

\* one pass of the loop over [-1, 0, 1]; an absent group is None
SplitGroup(rows, c, value) ==
    IF value \in Counts(c)
    THEN Present(Select(rows, [i \in DOMAIN c |-> c[i] = value]))
    ELSE Absent

split_left_right_censored(xm, yv, c) ==
    [xs |-> <<SplitGroup(xm, c, LEFT), SplitGroup(xm, c, NONE), SplitGroup(xm, c, RIGHT)>>,
     ys |-> <<SplitGroup(yv, c, LEFT), SplitGroup(yv, c, NONE), SplitGroup(yv, c, RIGHT)>>]

----------------------------------------------------------------------------
(* tobit_neg_log_likelihood *)

Init1(s) == SubSeq(s, 1, Len(s) - 1)      \* params[:-1]
Last(s) == s[Len(s)]                       \* params[-1]

\* y_left - np.dot(x_left, b), row by row
ResidYX(g_x, g_y, b) == [i \in DOMAIN g_x |-> g_y[i] - Dot(g_x[i], b)]
\* the right-censored residual taken with the sign of the left-censored one
ResidXY_LeftSign(g_x, g_y, b) == [i \in DOMAIN g_x |-> g_y[i] - Dot(g_x[i], b)]

\* np.dot(x_right, b) - y_right, row by row
ResidXY(g_x, g_y, b) == [i \in DOMAIN g_x |-> Dot(g_x[i], b) - g_y[i]]

\* elementwise division of an integer vector by the raw scale s
OverS(r, s) == [i \in DOMAIN r |-> Norm(r[i], s)]

\* the bag of the entries of a vector
RECURSIVE SeqToBag(_)
SeqToBag(s) == IF s = <<>> THEN EmptyBag ELSE SetToBag({Head(s)}) (+) SeqToBag(Tail(s))

Square(s) == [i \in DOMAIN s |-> RMul(s[i], s[i])]

\* max(np.finfo('float').resolution, s): on the integer grid s > 0 means s >= 1,
\* above the resolution 1e-15; any s <= 0 is replaced by the resolution
LogArg(s) == IF s > 0 THEN [floored |-> FALSE, v |-> s] ELSE [floored |-> TRUE, v |-> 0]

\* The value returned is
\*   -( SUM_{z in cdf} logPhi(z)  -  sumsq/2  -  nmid*(log sqrt(2 pi) + log(logarg)) )
\* (norm.logpdf(z) = -z^2/2 - log sqrt(2 pi)); cdf is the bag of concat_stats.
tobit_neg_log_likelihood(gxs, gys, p) ==
    LET b == Init1(p)
        s == Last(p)
        left == IF gys[1].none THEN <<>> ELSE ResidYX(gxs[1].v, gys[1].v, b)
        right == IF gys[3].none THEN <<>> ELSE ResidXY(gxs[3].v, gys[3].v, b)
        concat_stats == OverS(left \o right, s)
        mid_stats == IF gys[2].none THEN <<>>
                     ELSE OverS(ResidYX(gxs[2].v, gys[2].v, b), s)
    IN  [cdf |-> SeqToBag(concat_stats),
         sumsq |-> RSum(Square(mid_stats)),
         nmid |-> IF gys[2].none THEN 0 ELSE Len(gys[2].v),
         logarg |-> IF gys[2].none THEN LogArg(1) ELSE LogArg(s)]

\* logPhi(z) is finite for finite z and for z = +inf (value 0); -inf and NaN are not
LogCdfFinite(z) == IsFinite(z) \/ z = PosInf

FiniteNLL(f) ==
    /\ \A z \in BagToSet(f.cdf) : LogCdfFinite(z)
    /\ IsFinite(f.sumsq)

----------------------------------------------------------------------------
(* tobit_neg_log_likelihood_der *)

\* A gradient entry is (rat + SUM_{<<z, c>> in mills} c * lambda(z)) / div, where
\* lambda(z) = exp(logpdf(z) - log_ndtr(z)) is the inverse Mills ratio at a finite
\* z (finite, > 0) and every c is finite and non-zero.
SymZero == [rat |-> Rat(0), mills |-> EmptyBag, div |-> 1]

\* np.exp(l_pdf - l_cdf) at a non-finite z: +inf gives exp(-inf - 0) = 0,
\* -inf gives exp(-inf + inf) = NaN, NaN gives NaN
FracSpecial(z) == IF z = PosInf THEN Rat(0) ELSE NaN

\* frac(z) * c, one product of np.dot(frac, v)
FracTimes(z, c) ==
    IF ~IsFinite(z) THEN [SymZero EXCEPT !.rat = RMul(FracSpecial(z), c)]
    ELSE IF ~IsFinite(c) \/ c = Rat(0) THEN [SymZero EXCEPT !.rat = c]
    ELSE [SymZero EXCEPT !.mills = SetToBag({<<z, c>>})]

SymAdd(a, b) == [rat |-> RAdd(a.rat, b.rat), mills |-> a.mills (+) b.mills, div |-> 1]

\* the bag of terms with every coefficient negated
NegTerms(bg) ==
    [e \in {<<t[1], RNeg(t[2])>> : t \in DOMAIN bg} |-> bg[<<e[1], RNeg(e[2])>>]]

SymNeg(a) == [rat |-> RNeg(a.rat), mills |-> NegTerms(a.mills), div |-> a.div]

SymSub(a, b) == SymAdd(a, SymNeg(b))

\* np.dot(frac, v) for the vector z of standardized residuals and a vector v
RECURSIVE FracDot(_, _)
FracDot(z, v) ==
    IF z = <<>> THEN SymZero
    ELSE SymAdd(FracTimes(Head(z), Head(v)), FracDot(Tail(z), Tail(v)))

\* np.dot(u, v) of two vectors of extended rationals
RECURSIVE RDot(_, _)
RDot(u, v) ==
    IF u = <<>> THEN Rat(0) ELSE RAdd(RMul(Head(u), Head(v)), RDot(Tail(u), Tail(v)))

\* column j of (x_group / s)
ColOverS(g_x, j, s) == [i \in DOMAIN g_x |-> Norm(g_x[i][j], s)]

FromRat(r) == [SymZero EXCEPT !.rat = r]

\* (np.square(mid_stats) - 1).sum()
SquaresMinusOne(z) == RSum([i \in DOMAIN z |-> RSub(RMul(z[i], z[i]), Rat(1))])

tobit_neg_log_likelihood_der(gxs, gys, p) ==
    LET b == Init1(p)
        s == Last(p)
        hasL == ~gys[1].none
        hasR == ~gys[3].none
        hasM == ~gys[2].none
        left_stats == IF hasL THEN OverS(ResidYX(gxs[1].v, gys[1].v, b), s) ELSE <<>>
        right_stats == IF hasR THEN OverS(ResidXY(gxs[3].v, gys[3].v, b), s) ELSE <<>>
        mid_stats == IF hasM THEN OverS(ResidYX(gxs[2].v, gys[2].v, b), s) ELSE <<>>
        beta_left(j) == IF hasL THEN FracDot(left_stats, ColOverS(gxs[1].v, j, s)) ELSE SymZero
        beta_right(j) == IF hasR THEN FracDot(right_stats, ColOverS(gxs[3].v, j, s)) ELSE SymZero
        beta_mid(j) == IF hasM THEN FromRat(RDot(mid_stats, ColOverS(gxs[2].v, j, s))) ELSE SymZero
        beta_jac == [j \in 1..Len(b) |->
                        SymAdd(SymAdd(SymSub(SymZero, beta_left(j)), beta_right(j)), beta_mid(j))]
        left_sigma == IF hasL THEN FracDot(left_stats, left_stats) ELSE SymZero
        right_sigma == IF hasR THEN FracDot(right_stats, right_stats) ELSE SymZero
        mid_sigma == IF hasM THEN FromRat(SquaresMinusOne(mid_stats)) ELSE SymZero
        sigma_jac == SymAdd(SymSub(SymSub(SymZero, left_sigma), right_sigma), mid_sigma)
        combo_jac == Append(beta_jac, [sigma_jac EXCEPT !.div = s])
    IN  [j \in DOMAIN combo_jac |-> SymNeg(combo_jac[j])]

FiniteSym(a) == IsFinite(a.rat) /\ a.div # 0

FiniteJac(g) == \A j \in DOMAIN g : FiniteSym(g[j])

----------------------------------------------------------------------------
(* Inputs *)

\* censoring codes a caller can pass: the three valid ones and one that is not
Codes == {LEFT, NONE, RIGHT, RIGHT + 1}

Datasets ==
    UNION {[x : [1..n -> [1..k -> XVals]], y : [1..n -> YVals], cens : [1..n -> Codes]] :
             <<n, k>> \in (1..MaxRows) \X NumCols}

ParamGrid(len) ==
    {p \in [1..len -> CoefVals \cup ScaleVals] :
        /\ \A j \in 1..(len - 1) : p[j] \in CoefVals
        /\ p[len] \in ScaleVals}

----------------------------------------------------------------------------
(* TobitModel *)

\* __init__: every estimate is None
NewModel == [ols_coef_ |-> None, ols_intercept |-> None, coef_ |-> None,
             intercept_ |-> None, sigma_ |-> None]

\* x_copy.insert(0, 'intercept', 1.0)
InsertIntercept(xm) == [i \in DOMAIN xm |-> <<1>> \o xm[i]]

\* LinearRegression(fit_intercept=False).fit(x_copy, y).coef_ is the external
\* least-squares solver (scipy.linalg.lstsq): the coefficient vectors of the grid
\* with the least residual sum of squares and, among those, the least norm
RSS(xm, yv, b) == Dot(ResidYX(xm, yv, b), ResidYX(xm, yv, b))

OLS(xm, yv) ==
    LET G == [1..Len(xm[1]) -> CoefVals]
        best == {b \in G : \A c \in G : RSS(xm, yv, b) <= RSS(xm, yv, c)}
    IN  {b \in best : \A c \in best : Dot(b, b) <= Dot(c, c)}

RECURSIVE ISum(_)
ISum(s) == IF s = <<>> THEN 0 ELSE Head(s) + ISum(Tail(s))

\* s0 = np.sqrt(np.var(y - y_pred)): var = (n*SUM r^2 - (SUM r)^2) / n^2, and the
\* root is taken up to the next integer of the grid (0 exactly when var = 0)
S0(xm, yv, b) ==
    LET r == ResidYX(xm, yv, b)
        n == Len(r)
        num == n * Dot(r, r) - ISum(r) * ISum(r)
    IN  CHOOSE s \in 0..(num + 1) :
            /\ s * s * n * n >= num
            /\ \A t \in 0..(num + 1) : t * t * n * n >= num => s <= t

\* lines 140-148: the estimates stored on the instance
\* (result.x[1] is the second entry: Python counts from 0, TLA+ from 1)
FitStore(fi, ols, res) ==
    [ols_coef_ |-> Tail(ols),
     ols_intercept |-> Head(ols),
     intercept_ |-> IF fi THEN res.x[2] ELSE 0,
     coef_ |-> IF fi THEN SubSeq(res.x, 2, Len(res.x) - 1) ELSE Init1(res.x),
     sigma_ |-> Last(res.x)]

\* np.sqrt of a diagonal entry: NaN (with a RuntimeWarning) below zero
RSqrt(v) == IF v < 0 THEN NaN ELSE Rat(CHOOSE r \in 0..v : r * r = v)

Z95 == <<49, 25>>      \* the multiplier 1.96

\* one row of summary_df; the p-value 2 * (1 - norm.cdf(|z|)) is kept as |z|
SummaryRow(est, se) ==
    LET z == RDiv(Rat(est), se)
    IN  [coef |-> Rat(est), stderr |-> se, z |-> z, p |-> RAbs(z),
         lo |-> RSub(Rat(est), RMul(Z95, se)),
         hi |-> RAdd(Rat(est), RMul(Z95, se))]

\* lines 151-172 with the intercept enabled
Summary(m, hess_diag) ==
    LET std_errors == [i \in DOMAIN hess_diag |-> RSqrt(hess_diag[i])]
        coef_std_errors == SubSeq(std_errors, 2, Len(std_errors) - 1)
        intercept_std_error == std_errors[1]
    IN  <<SummaryRow(m.intercept_, intercept_std_error)>> \o
        [j \in DOMAIN m.coef_ |-> SummaryRow(m.coef_[j], coef_std_errors[j])]

HasNaN(row) ==
    IsNaN(row.stderr) \/ IsNaN(row.z) \/ IsNaN(row.p) \/ IsNaN(row.lo) \/ IsNaN(row.hi)

\* predict: self.intercept_ + np.dot(x, self.coef_)
Predict(m, xm) == [i \in DOMAIN xm |-> m.intercept_ + Dot(xm[i], m.coef_)]

\* the scoring functions: mean absolute error (the default), mean squared error
Metrics == {"mean_absolute_error", "mean_squared_error"}

Metric(name, y_true, y_pred) ==
    LET e == [i \in DOMAIN y_true |-> y_true[i] - y_pred[i]]
    IN  IF name = "mean_absolute_error"
        THEN Norm(ISum([i \in DOMAIN e |-> Abs(e[i])]), Len(e))
        ELSE Norm(Dot(e, e), Len(e))

\* score: y_pred = np.dot(x, self.coef_); scoring_function(y, y_pred)
Score(m, xm, yv, name) == Metric(name, yv, [i \in DOMAIN xm |-> Dot(xm[i], m.coef_)])

----------------------------------------------------------------------------
(* The life of one TobitModel: construct, fit, predict / score *)

NoResult == [x |-> <<>>, fun |-> None, nit |-> 0, hess_inv |-> <<>>, success |-> FALSE]
NoGroups == <<Absent, Absent, Absent>>
NoCall == [op |-> "none", metric |-> "none", value |-> <<>>]

Init ==
    /\ fit_intercept \in BOOLEAN
    /\ \E d \in Datasets : x = d.x /\ y = d.y /\ cens = d.cens
    /\ self = NewModel
    /\ pc = "constructed"
    /\ b0 = <<>>
    /\ xs = NoGroups /\ ys = NoGroups
    /\ params = <<>>
    /\ fun = None /\ jac = <<>>
    /\ nit = 0
    /\ result = NoResult
    /\ summary = <<>>
    /\ out = NoCall
    /\ ref = None

\* fit, lines 122-126 with the intercept disabled: x_copy.scale(...) raises
\* AttributeError (a DataFrame has no method scale)
FitRaise ==
    /\ pc = "constructed"
    /\ ~fit_intercept
    /\ pc' = "raised"
    /\ UNCHANGED <<fit_intercept, self, x, y, cens, b0, xs, ys, params, fun, jac,
                   nit, result, summary, out, ref>>

\* fit, lines 122-137 with the intercept enabled, up to minimize evaluating the
\* two closures at params0
FitStart ==
    /\ pc = "constructed"
    /\ fit_intercept
    /\ LET x_copy == InsertIntercept(x)
           groups == split_left_right_censored(x_copy, y, cens)
       IN  /\ \E ols \in OLS(x_copy, y) :
                /\ b0' = ols
                /\ params' = Append(ols, S0(x_copy, y, ols))
           /\ xs' = groups.xs
           /\ ys' = groups.ys
    /\ fun' = tobit_neg_log_likelihood(xs', ys', params')
    /\ jac' = tobit_neg_log_likelihood_der(xs', ys', params')
    /\ nit' = 0
    /\ pc' = "optimizing"
    /\ UNCHANGED <<fit_intercept, self, x, y, cens, result, summary, out, ref>>

\* one iteration of the external optimizer: it moves to any iterate and calls
\* the two closures there
OptStep ==
    /\ pc = "optimizing"
    /\ nit < MaxIter
    /\ \E p \in ParamGrid(Len(params)) :
          /\ params' = p
          /\ fun' = tobit_neg_log_likelihood(xs, ys, p)
          /\ jac' = tobit_neg_log_likelihood_der(xs, ys, p)
    /\ nit' = nit + 1
    /\ UNCHANGED <<fit_intercept, self, x, y, cens, pc, b0, xs, ys, result, summary,
                   out, ref>>

\* minimize returns (converged or not, with any inverse-Hessian diagonal) and
\* fit runs lines 138-193 to its return
FitReturn ==
    /\ pc = "optimizing"
    /\ \E h \in [1..Len(params) -> HessVals], ok \in BOOLEAN :
          LET res == [x |-> params, fun |-> fun, nit |-> nit, hess_inv |-> h,
                      success |-> ok]
          IN  /\ result' = res
              /\ self' = FitStore(fit_intercept, b0, res)
              /\ summary' = Summary(FitStore(fit_intercept, b0, res), res.hess_inv)
    /\ pc' = "fitted"
    /\ UNCHANGED <<fit_intercept, x, y, cens, b0, xs, ys, params, fun, jac, nit,
                   out, ref>>

\* predict(x) on the fitted model, with the raw features of the dataset
DoPredict ==
    /\ pc = "fitted"
    /\ out' = [op |-> "predict", metric |-> "none", value |-> Predict(self, x)]
    /\ UNCHANGED <<fit_intercept, self, x, y, cens, pc, b0, xs, ys, params, fun, jac,
                   nit, result, summary, ref>>

\* score(x, y, scoring_function) on the fitted model
DoScore ==
    /\ pc = "fitted"
    /\ \E m \in Metrics :
          out' = [op |-> "score", metric |-> m, value |-> Score(self, x, y, m)]
    /\ UNCHANGED <<fit_intercept, self, x, y, cens, pc, b0, xs, ys, params, fun, jac,
                   nit, result, summary, ref>>

Next == FitRaise \/ FitStart \/ OptStep \/ FitReturn \/ DoPredict \/ DoScore

Spec == Init /\ [][Next]_vars

----------------------------------------------------------------------------
(* Direct calls of tobit_neg_log_likelihood, and the sign-flip experiment:     *)
(* evaluate, transform the data and the parameters, evaluate again            *)

LikParamGrid(len) ==
    {p \in [1..len -> ((0 - MaxCoef)..MaxCoef) \cup ScaleVals] :
        /\ \A j \in 1..(len - 1) : p[j] \in (0 - MaxCoef)..MaxCoef
        /\ p[len] \in ScaleVals}

\* the design matrix the evaluator sees: x_copy of fit, or the raw features
Design(fi, xm) == IF fi THEN InsertIntercept(xm) ELSE xm

InitLik ==
    /\ fit_intercept \in BOOLEAN
    /\ \E d \in Datasets : x = d.x /\ y = d.y /\ cens = d.cens
    /\ params = <<>>
    /\ self = NewModel
    /\ pc = "given"
    /\ b0 = <<>>
    /\ xs = NoGroups /\ ys = NoGroups
    /\ fun = None /\ jac = <<>>
    /\ nit = 0
    /\ result = NoResult
    /\ summary = <<>>
    /\ out = NoCall
    /\ ref = None

\* partition the design matrix and evaluate the objective at any parameter
\* vector p (one coefficient per column of the design matrix, then the scale)
Evaluate ==
    /\ pc = "given"
    /\ LET groups == split_left_right_censored(Design(fit_intercept, x), y, cens)
       IN  xs' = groups.xs /\ ys' = groups.ys
    /\ \E p \in LikParamGrid(Len(Design(fit_intercept, x)[1]) + 1) :
          /\ params' = p
          /\ fun' = tobit_neg_log_likelihood(xs', ys', p)
    /\ pc' = "evaluated"
    /\ UNCHANGED <<fit_intercept, self, x, y, cens, b0, jac, nit, result, summary,
                   out, ref>>

SwapCode(c) == IF c = LEFT THEN RIGHT ELSE IF c = RIGHT THEN LEFT ELSE c

\* negate the feature coefficients; the intercept (the first entry when the
\* constant column is present) and the scale (the last entry) stay
NegateFeatures(fi, p) ==
    [j \in DOMAIN p |-> IF j = Len(p) \/ (fi /\ j = 1) THEN p[j] ELSE 0 - p[j]]

\* negate every coefficient, the intercept included; the scale stays
NegateAll(p) == [j \in DOMAIN p |-> IF j = Len(p) THEN p[j] ELSE 0 - p[j]]

\* keep the value just computed, negate every response, swap LEFT and RIGHT,
\* move to the parameters q, then partition and evaluate again
FlipAndEvaluate(q) ==
    LET yf == [i \in DOMAIN y |-> 0 - y[i]]
        cf == [i \in DOMAIN cens |-> SwapCode(cens[i])]
        groups == split_left_right_censored(Design(fit_intercept, x), yf, cf)
    IN  /\ ref' = fun
        /\ y' = yf
        /\ cens' = cf
        /\ params' = q
        /\ xs' = groups.xs
        /\ ys' = groups.ys
        /\ fun' = tobit_neg_log_likelihood(xs', ys', params')

SignFlipFeatures ==
    /\ pc = "evaluated"
    /\ FlipAndEvaluate(NegateFeatures(fit_intercept, params))
    /\ pc' = "re_features"
    /\ UNCHANGED <<fit_intercept, self, x, b0, jac, nit, result, summary, out>>

SignFlipAll ==
    /\ pc = "evaluated"
    /\ FlipAndEvaluate(NegateAll(params))
    /\ pc' = "re_all"
    /\ UNCHANGED <<fit_intercept, self, x, b0, jac, nit, result, summary, out>>

NextLik == Evaluate \/ SignFlipFeatures \/ SignFlipAll

SpecLik == InitLik /\ [][NextLik]_vars

----------------------------------------------------------------------------
(* Properties *)

ValidCodes == \A i \in DOMAIN cens : cens[i] \in {LEFT, NONE, RIGHT}

Partitioned == pc \in {"optimizing", "fitted"}

\* the entries of seq at the positions in S, in input order
Restrict(seq, S) ==
    LET F[i \in 0..Len(seq)] ==
            IF i = 0 THEN <<>>
            ELSE IF i \in S THEN Append(F[i - 1], seq[i]) ELSE F[i - 1]
    IN  F[Len(seq)]

\* the returned groups are the rows of the design matrix dealt out by grp, a
\* function from observations to groups 1 (left), 2 (mid), 3 (right)
DealtBy(grp) ==
    \A g \in 1..3 :
        LET S == {i \in DOMAIN grp : grp[i] = g}
        IN  /\ xs[g].none <=> S = {}
            /\ ys[g].none <=> S = {}
            /\ S # {} => /\ xs[g].v = Restrict(InsertIntercept(x), S)
                         /\ ys[g].v = Restrict(y, S)

\* C1: with the intercept enabled, fit stores intercept_ = p[0], coef_ = p[1..k]
\* and sigma_ = p[k+1] of the final parameter vector p (0-based), so intercept_
\* is the entry of the constant column and not a feature coefficient.
C1_InterceptIsFirstEntry ==
    (pc = "fitted" /\ fit_intercept) =>
        /\ self.intercept_ = result.x[1]
        /\ self.coef_ = SubSeq(result.x, 2, Len(result.x) - 1)
        /\ self.sigma_ = result.x[Len(result.x)]

\* C2: for any dataset, every observation is in exactly one of the returned
\* groups: the groups are the rows dealt out to left / mid / right, each row to
\* one group, with feature row and response kept together and in input order
\* (so the row counts of the present groups sum to the number of observations).
C2_PartitionComplete ==
    Partitioned => \E grp \in [DOMAIN cens -> 1..3] : DealtBy(grp)

\* C2 restricted to datasets whose codes are all in {-1, 0, 1}
PartitionCompleteOnValidCodes ==
    (Partitioned /\ ValidCodes) =>
        \E grp \in [DOMAIN cens -> 1..3] :
            /\ DealtBy(grp)
            /\ \A i \in DOMAIN cens : grp[i] = cens[i] + 2

\* C3: a censoring code outside {-1, 0, 1} is a fatal input error at partition
\* time: no groups are returned and no estimation runs on the remaining rows.
C3_InvalidCodeIsFatal ==
    ~ValidCodes => ~Partitioned

\* C4: after any fit that returns, the stored scale sigma_ is strictly positive,
\* whatever the optimizer visited and returned.
C4_SigmaPositive ==
    pc = "fitted" => self.sigma_ > 0

\* C5: the model fit returns carries a status from which the caller can tell a
\* non-converged fit from a converged one: what is stored on the instance is not
\* what would have been stored had the optimizer reported the opposite status.
C5_ConvergenceStatusStored ==
    pc = "fitted" =>
        self # FitStore(fit_intercept, b0, [result EXCEPT !.success = ~result.success])

\* C6: a negative diagonal entry of the inverse-curvature matrix is an error for
\* the affected parameter: the row of the summary derived from that entry holds
\* no NaN standard error, z-statistic, p-value or confidence bound.
C6_NoNaNFromNegativeDiagonal ==
    pc = "fitted" =>
        \A i \in DOMAIN summary : result.hess_inv[i] < 0 => ~HasNaN(summary[i])

\* C7: whenever the optimizer proposes a scale <= 0, objective and gradient use
\* the floored scale wherever the scale is used, so both values are finite.
C7_FiniteAtNonPositiveScale ==
    (pc = "optimizing" /\ Last(params) <= 0) => (FiniteNLL(fun) /\ FiniteJac(jac))

\* C9: predict(x) returns intercept_ + x.coef_ for each row and score(x, y, m)
\* equals m(y, predict(x)).
C9_ScoreUsesPredict ==
    /\ out.op = "predict" =>
          out.value = [i \in DOMAIN x |-> self.intercept_ + Dot(x[i], self.coef_)]
    /\ out.op = "score" => out.value = Metric(out.metric, y, Predict(self, x))

\* C10: with fit_intercept disabled, fit on a valid dataset does not raise and
\* returns the model with intercept_ = 0, coef_ = all entries of the final
\* parameter vector but the last, sigma_ = the last entry, and a summary with
\* one row per reported parameter.
C10_NoInterceptFitCompletes ==
    (~fit_intercept /\ ValidCodes) =>
        /\ pc # "raised"
        /\ pc = "fitted" =>
              /\ self.intercept_ = 0
              /\ self.coef_ = SubSeq(result.x, 1, Len(result.x) - 1)
              /\ self.sigma_ = result.x[Len(result.x)]
              /\ Len(summary) = Len(self.coef_)

\* C8 as stated: after negating the responses, swapping LEFT and RIGHT and
\* negating the feature coefficients (intercept and scale unchanged), the
\* objective has the value it had before.
C8_FlipFeaturesSameValue ==
    pc = "re_features" => fun = ref

\* C8 amended: after negating the responses, swapping LEFT and RIGHT and negating
\* every coefficient, the intercept included (scale unchanged), the objective
\* has the value it had before.
C8_FlipAllSameValue ==
    pc = "re_all" => fun = ref

\* a flipped evaluation with a non-zero intercept, censored and uncensored rows
\* and a finite value
C8_Witness ==
    /\ pc = "re_all"
    /\ fit_intercept
    /\ params[1] # 0
    /\ params[2] # 0
    /\ Last(params) > 0
    /\ \E i \in DOMAIN x : x[i][1] # 0 /\ y[i] # 0
    /\ fun.cdf # EmptyBag
    /\ fun.nmid > 0
    /\ FiniteNLL(fun)
    /\ fun = ref

====
